---------------------------- MODULE Spec2Model ----------------------------
(***************************************************************************)
(* Model of the registry-driven Messari client (messari_sdk/client.py,     *)
(* registry.py, exceptions.py): MessariClient.call, MessariClient.paged_call*)
(* and the helpers they use.  The transport (requests.Session.request) is  *)
(* outside the repository: its answer to a request is a nondeterministic   *)
(* input of the actions.                                                   *)
(***************************************************************************)
EXTENDS Integers, Sequences, FiniteSets, TLC

VARIABLES
    registry,   \* MESSARI_API_REGISTRY: endpoint name -> descriptor
    client,     \* the MessariClient's attributes set by __init__
    pc,         \* "new" (no client yet) | "failed" (__init__ raised) |
                \* "idle" | "paging" (inside paged_call's loop) | "done"
    op,         \* "none" | "call" | "paged_call": the public method running
    args,       \* the arguments the caller passed to it
    qp,         \* paged_call's private copy of the query map
    page,       \* paged_call's local `page`
    results,    \* paged_call's local `results`
    sent,       \* the requests handed to session.request during the operation
    received,   \* the transport's answers to them, in order
    jsonCalls,  \* how many times resp.json() ran during the operation
    result,     \* what the operation returned or raised
    ctor,       \* the arguments and environment __init__ was called with
    caller,     \* the content, now, of the dicts the caller passed
    extraPassed \* an operation this client has finished passed extra headers

vars == <<registry, client, pc, op, args, qp, page, results, sent, received,
          jsonCalls, result, ctor, caller, extraPassed>>

(***************************************************************************)
(* Bounds of the model.                                                    *)
(***************************************************************************)
\* paged_call is tried with max_pages in -1 .. MaxPages
MaxPages == 3
\* integer start pages in the caller's query map are 0 .. MaxStartPage
MaxStartPage == 1
\* base URLs are tried with 0 .. MaxSlashes trailing slashes
MaxSlashes == 2

(***************************************************************************)
(* Python values.  Every value is a record of the same shape so that       *)
(* values of different Python types can be compared: t is the type, n the  *)
(* number of an int or bool, s the text of a str, list, dict or payload.   *)
(***************************************************************************)
None == [t |-> "none", n |-> 0, s |-> ""]
PyBool(b) == [t |-> "bool", n |-> IF b THEN 1 ELSE 0, s |-> ""]
PyInt(i) == [t |-> "int", n |-> i, s |-> ""]
PyStr(x) == [t |-> "str", n |-> 0, s |-> x]
PyList(x) == [t |-> "list", n |-> 0, s |-> x]
PyDict(x) == [t |-> "dict", n |-> 0, s |-> x]
\* a requests.Response handed back by call(raw=True)
PyResponse(status, content) == [t |-> "response", n |-> status, s |-> content]

\* str(v), as str.format applies it to a path parameter
Str(v) ==
    CASE v.t = "str" -> v.s
      [] v.t = "int" -> ToString(v.n)
      [] v.t = "bool" -> (IF v.n = 1 THEN "True" ELSE "False")
      [] v.t = "none" -> "None"
      [] OTHER -> v.s

\* a dict is a function from its keys; {} is the function of no key
EmptyDict == [k \in {} |-> None]
\* dict.update / dict(d) then update
Update(d, e) ==
    [k \in DOMAIN d \cup DOMAIN e |-> IF k \in DOMAIN e THEN e[k] ELSE d[k]]
\* an Optional[Dict] argument: None (absent) or a dict
Absent == [none |-> TRUE, d |-> EmptyDict]
Some(d) == [none |-> FALSE, d |-> d]
\* `x or {}`: None and the empty dict both give {}
OrEmpty(x) == IF x.none \/ DOMAIN x.d = {} THEN EmptyDict ELSE x.d

Range(seq) == {seq[i] : i \in DOMAIN seq}
\* the values of a dict
Range2(d) == {d[k] : k \in DOMAIN d}

(***************************************************************************)
(* registry.py: the endpoint registry.  A path template is the sequence of *)
(* its literal pieces and {placeholders}.  The descriptions are left out.  *)
(***************************************************************************)
Lit(x) == [ph |-> FALSE, s |-> x]
Ph(x) == [ph |-> TRUE, s |-> x]

MESSARI_API_REGISTRY ==
    [k \in {"assets.list", "assets.details", "exchanges.list",
            "exchanges.get", "news.feed", "news.sources"} |->
      CASE k = "assets.list" ->
             [method |-> "GET",
              path |-> <<Lit("/metrics/v2/assets")>>,
              path_params |-> <<>>,
              query_params |-> <<"category", "sector", "search", "limit",
                                 "page", "hasDiligence", "hasIntel",
                                 "hasMarketData", "hasNews", "hasProposals",
                                 "hasResearch", "hasTokenUnlocks",
                                 "hasFundraising">>]
        [] k = "assets.details" ->
             [method |-> "GET",
              path |-> <<Lit("/metrics/v2/assets/details")>>,
              path_params |-> <<>>,
              query_params |-> <<"assetIDs">>]
        [] k = "exchanges.list" ->
             [method |-> "GET",
              path |-> <<Lit("/metrics/v1/exchanges")>>,
              path_params |-> <<>>,
              query_params |-> <<"limit", "pageSize", "page", "type",
                                 "typeRankCutoff">>]
        [] k = "exchanges.get" ->
             [method |-> "GET",
              path |-> <<Lit("/metrics/v1/exchanges/"),
                         Ph("exchangeIdentifier")>>,
              path_params |-> <<"exchangeIdentifier">>,
              query_params |-> <<>>]
        [] k = "news.feed" ->
             [method |-> "GET",
              path |-> <<Lit("/news/v1/news/feed")>>,
              path_params |-> <<>>,
              query_params |-> <<"publishedBefore", "publishedAfter",
                                 "sourceTypes", "sourceIds", "assetIds",
                                 "sort", "limit", "page">>]
        [] OTHER ->
             [method |-> "GET",
              path |-> <<Lit("/news/v1/news/sources")>>,
              path_params |-> <<>>,
              query_params |-> <<"sourceName", "sourceTypes", "limit",
                                 "page">>]]

\* str.upper() on the method names a registry may hold
Upper(m) ==
    CASE m = "get" -> "GET"
      [] m = "post" -> "POST"
      [] OTHER -> m

\* the text of a path template, as the error message quotes it
RECURSIVE TemplateText(_)
TemplateText(segs) ==
    IF segs = <<>> THEN ""
    ELSE (IF Head(segs).ph THEN "{" \o Head(segs).s \o "}" ELSE Head(segs).s)
         \o TemplateText(Tail(segs))

\* the placeholders of a template
Placeholders(segs) == {segs[i].s : i \in {j \in DOMAIN segs : segs[j].ph}}

(***************************************************************************)
(* path_template.format with path_params: left to right, each placeholder  *)
(* replaced by str() of its value; the first placeholder with no value     *)
(* raises KeyError(name).  Keys the template does not name are ignored.    *)
(***************************************************************************)
RECURSIVE FormatFrom(_, _, _)
FormatFrom(segs, pp, acc) ==
    IF segs = <<>> THEN [ok |-> TRUE, s |-> acc, key |-> ""]
    ELSE LET h == Head(segs) IN
         IF ~h.ph THEN FormatFrom(Tail(segs), pp, acc \o h.s)
         ELSE IF h.s \in DOMAIN pp
              THEN FormatFrom(Tail(segs), pp, acc \o Str(pp[h.s]))
              ELSE [ok |-> FALSE, s |-> "", key |-> h.s]

\* Mutant of Format: a placeholder with no value is replaced by the empty
\* string instead of raising KeyError.
RECURSIVE FormatDefaultingFrom(_, _, _)
FormatDefaultingFrom(segs, pp, acc) ==
    IF segs = <<>> THEN [ok |-> TRUE, s |-> acc, key |-> ""]
    ELSE LET h == Head(segs) IN
         IF ~h.ph THEN FormatDefaultingFrom(Tail(segs), pp, acc \o h.s)
         ELSE FormatDefaultingFrom(Tail(segs), pp,
                  acc \o (IF h.s \in DOMAIN pp THEN Str(pp[h.s]) ELSE ""))

FormatDefaulting(segs, pp) == FormatDefaultingFrom(segs, pp, "")

Format(segs, pp) == FormatFrom(segs, pp, "")

(***************************************************************************)
(* exceptions.py: the exception classes, and the classes of other origin   *)
(* that reach the caller of call().                                        *)
(***************************************************************************)
\* class -> its base classes within the SDK (exceptions.py:6-36)
MessariErrorClasses ==
    {"MessariError", "MessariConfigError", "MessariAPIError",
     "MessariAuthError", "MessariRateLimitError"}
\* issubclass(cls, MessariAPIError)
MessariAPIErrorClasses ==
    {"MessariAPIError", "MessariAuthError", "MessariRateLimitError"}
IsMessariError(e) == e.cls \in MessariErrorClasses

NoErr == [cls |-> "", msg |-> "", status_code |-> 0, error_body |-> None,
          url |-> ""]
\* an exception that is not a MessariAPIError carries a message only
PlainError(cls, msg) ==
    [cls |-> cls, msg |-> msg, status_code |-> 0, error_body |-> None,
     url |-> ""]
\* MessariAPIError.__init__ and its subclasses
MessariAPIError(cls, status_code, message, error_body, url) ==
    [cls |-> cls,
     msg |-> "[" \o ToString(status_code) \o "] " \o message,
     status_code |-> status_code, error_body |-> error_body, url |-> url]


(***************************************************************************)
(* The transport.  session.request either returns a response (a status     *)
(* code and a body) or raises: here, the timeout the client configured.    *)
(***************************************************************************)
Response(status_code, content) ==
    [kind |-> "response", status_code |-> status_code, content |-> content]
TransportTimeout == [kind |-> "timeout", status_code |-> 0, content |-> ""]

\* resp.text of the bodies the model uses (all ASCII): the same characters
Text(content) == content

\* str.strip() on the bodies the model uses
Strip(text) == IF text = " " THEN "" ELSE text

\* json.loads on the bodies the model uses: the empty body, blank text and
\* HTML do not decode
JsonLoads(content) ==
    CASE content = "{\"error\":\"rate limited\"}" ->
           [ok |-> TRUE, value |-> PyDict("error: rate limited")]
      [] content = "{\"data\":[]}" ->
           [ok |-> TRUE, value |-> PyDict("data: []")]
      [] OTHER -> [ok |-> FALSE, value |-> None]

(***************************************************************************)
(* client.py: the internal helpers.                                        *)
(***************************************************************************)
Restrict(d, keys) == [k \in keys |-> d[k]]

\* Mutant of NormalizeQueryParams: a bool is sent as Python's str() of it.
NormalizeQueryParamsPyStr(params) ==
    [k \in DOMAIN params |->
        IF params[k].t = "bool" THEN PyStr(Str(params[k])) ELSE params[k]]

\* MessariClient._normalize_query_params
NormalizeQueryParams(params) ==
    [k \in DOMAIN params |->
        IF params[k].t = "bool"
        THEN PyStr(IF params[k].n = 1 THEN "true" ELSE "false")
        ELSE params[k]]

\* Mutant of FilterQueryParams: the allow-all branch keeps None values.
FilterQueryParamsKeepNone(reg, api_name, query_params) ==
    LET spec == reg[api_name]
        allowed_qp == Range(spec.query_params)
        raw == IF allowed_qp # {}
               THEN Restrict(query_params,
                             {k \in DOMAIN query_params :
                                 k \in allowed_qp /\ query_params[k] # None})
               ELSE query_params
    IN  NormalizeQueryParams(raw)

\* MessariClient._filter_query_params
FilterQueryParams(reg, api_name, query_params) ==
    LET spec == reg[api_name]
        allowed_qp == Range(spec.query_params)
        raw == IF allowed_qp # {}
               THEN Restrict(query_params,
                             {k \in DOMAIN query_params :
                                 k \in allowed_qp /\ query_params[k] # None})
               ELSE Restrict(query_params,
                             {k \in DOMAIN query_params :
                                 query_params[k] # None})
    IN  NormalizeQueryParams(raw)

\* Mutant of ErrorClass: 403 is not taken for an authentication error.
ErrorClassOnly401(status_code) ==
    IF status_code = 401 THEN "MessariAuthError"
    ELSE IF status_code = 429 THEN "MessariRateLimitError"
    ELSE "MessariAPIError"

\* the class _raise_for_status picks for a status outside 200..299
ErrorClass(status_code) ==
    IF status_code \in {401, 403} THEN "MessariAuthError"
    ELSE IF status_code = 429 THEN "MessariRateLimitError"
    ELSE "MessariAPIError"

\* MessariClient._raise_for_status: raised is FALSE when it returns
RaiseForStatus(resp, url) ==
    IF 200 <= resp.status_code /\ resp.status_code < 300
    THEN [raised |-> FALSE, err |-> NoErr, jsonCalls |-> 0]
    ELSE LET text == Text(resp.content)
             decoded == JsonLoads(resp.content)
             body == IF decoded.ok THEN decoded.value ELSE None
             msg == IF Strip(text) # "" THEN Strip(text)
                    ELSE "HTTP " \o ToString(resp.status_code)
         IN  [raised |-> TRUE,
              err |-> MessariAPIError(ErrorClass(resp.status_code),
                                      resp.status_code, msg, body, url),
              jsonCalls |-> 1]

(***************************************************************************)
(* client.py: MessariClient.call as a function of the registry, the        *)
(* client, the arguments and the transport's answer.  It yields the        *)
(* requests handed to the transport (none or one), the answers received,   *)
(* the number of resp.json() calls and what call returned or raised.       *)
(***************************************************************************)
NoResult == [kind |-> "none", value |-> None, values |-> <<>>, err |-> NoErr]
Return(v) == [kind |-> "return", value |-> v, values |-> <<>>, err |-> NoErr]
ReturnList(vs) ==
    [kind |-> "return", value |-> None, values |-> vs, err |-> NoErr]
Raise(e) == [kind |-> "raise", value |-> None, values |-> <<>>, err |-> e]

\* Mutant of RequestJson: the body is tested for truth, not against None.
RequestJsonTruthy(method, json_body) ==
    IF method = "POST" /\ json_body # None /\ json_body # PyDict("")
    THEN json_body
    ELSE None

\* the json= argument of session.request (client.py:136)
RequestJson(method, json_body) ==
    IF method = "POST" /\ json_body # None THEN json_body ELSE None

\* Mutant of MergeHeaders: on a key both have, the base header wins.
MergeHeadersBaseWins(common_headers, extra_headers) ==
    IF ~extra_headers.none /\ DOMAIN extra_headers.d # {}
    THEN Update(extra_headers.d, common_headers)
    ELSE common_headers

\* headers = dict(self._common_headers); if extra_headers: update
MergeHeaders(common_headers, extra_headers) ==
    IF ~extra_headers.none /\ DOMAIN extra_headers.d # {}
    THEN Update(common_headers, extra_headers.d)
    ELSE common_headers

\* Mutant of HandleResponse: raw mode hands the response back without
\* validating its status.
HandleResponseRawUnchecked(resp, url, raw) ==
    LET rfs == RaiseForStatus(resp, url) IN
    IF raw
    THEN [jsonCalls |-> 0,
          result |-> Return(PyResponse(resp.status_code, resp.content))]
    ELSE IF rfs.raised
         THEN [jsonCalls |-> rfs.jsonCalls, result |-> Raise(rfs.err)]
         ELSE IF resp.content = ""
              THEN [jsonCalls |-> 0, result |-> Return(None)]
              ELSE LET decoded == JsonLoads(resp.content) IN
                   IF decoded.ok
                   THEN [jsonCalls |-> 1, result |-> Return(decoded.value)]
                   ELSE [jsonCalls |-> 1,
                         result |-> Raise(PlainError(
                             "requests.exceptions.JSONDecodeError",
                             "Expecting value"))]

\* Mutant of HandleResponse: no test for an empty body before resp.json().
HandleResponseNoEmptyCheck(resp, url, raw) ==
    LET rfs == RaiseForStatus(resp, url) IN
    IF rfs.raised
    THEN [jsonCalls |-> rfs.jsonCalls, result |-> Raise(rfs.err)]
    ELSE IF raw
         THEN [jsonCalls |-> 0,
               result |-> Return(PyResponse(resp.status_code, resp.content))]
         ELSE LET decoded == JsonLoads(resp.content) IN
              IF decoded.ok
              THEN [jsonCalls |-> 1, result |-> Return(decoded.value)]
              ELSE [jsonCalls |-> 1,
                    result |-> Raise(PlainError(
                        "requests.exceptions.JSONDecodeError",
                        "Expecting value"))]

\* client.py:140-150: what call does with the transport's response
HandleResponse(resp, url, raw) ==
    LET rfs == RaiseForStatus(resp, url) IN
    IF raw
    THEN IF rfs.raised
         THEN [jsonCalls |-> rfs.jsonCalls, result |-> Raise(rfs.err)]
         ELSE [jsonCalls |-> 0,
               result |-> Return(PyResponse(resp.status_code, resp.content))]
    ELSE IF rfs.raised
         THEN [jsonCalls |-> rfs.jsonCalls, result |-> Raise(rfs.err)]
         ELSE IF resp.content = ""
              THEN [jsonCalls |-> 0, result |-> Return(None)]
              ELSE LET decoded == JsonLoads(resp.content) IN
                   IF decoded.ok
                   THEN [jsonCalls |-> 1, result |-> Return(decoded.value)]
                   ELSE [jsonCalls |-> 1,
                         result |-> Raise(PlainError(
                             "requests.exceptions.JSONDecodeError",
                             "Expecting value"))]

\* client.py:105-121: the endpoint lookup and the path substitution
ResolvePath(reg, api_name, path_params) ==
    IF api_name \notin DOMAIN reg
    THEN [ok |-> FALSE, path |-> "",
          err |-> PlainError("ValueError", "Unknown api_name: " \o api_name)]
    ELSE LET path_template == reg[api_name].path
             f == Format(path_template, OrEmpty(path_params))
         IN  IF f.ok
             THEN [ok |-> TRUE, path |-> f.s, err |-> NoErr]
             ELSE [ok |-> FALSE, path |-> "",
                   err |-> PlainError("ValueError",
                       "Missing path param '" \o f.key \o "' for "
                       \o api_name \o " (path template: "
                       \o TemplateText(path_template) \o ")")]

\* the text of a tokenised string
RECURSIVE Join(_)
Join(tokens) == IF tokens = <<>> THEN "" ELSE Head(tokens) \o Join(Tail(tokens))

\* client.py:123-138: the request call hands to session.request
BuildRequest(reg, cl, a, path) ==
    LET method == Upper(reg[a.api_name].method) IN
    [method |-> method,
     url |-> Join(cl.base_url) \o path,
     headers |-> MergeHeaders(cl.common_headers, a.extra_headers),
     params |-> FilterQueryParams(reg, a.api_name, OrEmpty(a.query_params)),
     json |-> RequestJson(method, a.json_body),
     timeout |-> cl.timeout]

CallRun(reg, cl, a, out) ==
    LET r == ResolvePath(reg, a.api_name, a.path_params) IN
    IF ~r.ok
    THEN [sent |-> <<>>, received |-> <<>>, jsonCalls |-> 0,
          result |-> Raise(r.err)]
    ELSE LET req == BuildRequest(reg, cl, a, r.path) IN
         IF out.kind = "timeout"
         THEN [sent |-> <<req>>, received |-> <<out>>, jsonCalls |-> 0,
               result |-> Raise(PlainError("requests.exceptions.Timeout",
                                           "Read timed out."))]
         ELSE LET h == HandleResponse(out, req.url, a.raw) IN
              [sent |-> <<req>>, received |-> <<out>>,
               jsonCalls |-> h.jsonCalls, result |-> h.result]

\* Mutant of ClientAfterCall: headers is self._common_headers itself
\* (headers = self._common_headers), so the update lands in it.
ClientAfterCallAliased(reg, cl, a) ==
    IF ResolvePath(reg, a.api_name, a.path_params).ok
    THEN [cl EXCEPT !.common_headers =
                        MergeHeaders(cl.common_headers, a.extra_headers)]
    ELSE cl

\* the client's attributes after call ran on the arguments a: call assigns
\* to none of them, and the headers it updates are a copy,
\* dict(self._common_headers) (client.py:125)
ClientAfterCall(reg, cl, a) == cl

(***************************************************************************)
(* client.py: MessariClient.__init__.  A base URL is the sequence of its   *)
(* "/" characters and of the pieces of text between them, so that its end  *)
(* can be looked at.                                                       *)
(***************************************************************************)
DEFAULT_BASE_URL == <<"https:", "/", "/", "api.messari.io">>
DefaultTimeout == 15

\* str.rstrip("/"): every trailing "/" is removed
RECURSIVE RStripSlash(_)
RStripSlash(tokens) ==
    IF tokens # <<>> /\ tokens[Len(tokens)] = "/"
    THEN RStripSlash(SubSeq(tokens, 1, Len(tokens) - 1))
    ELSE tokens

\* Mutant of ResolveApiKey: the environment is used for any false key,
\* the empty string too (api_key or os.environ.get(...)).
ResolveApiKeyOrEnv(api_key, env) ==
    IF api_key = None \/ api_key = PyStr("") THEN env ELSE api_key

\* client.py:49-50: the environment is used only when api_key is None;
\* env is os.environ.get("MESSARI_API_KEY"): None or a string
ResolveApiKey(api_key, env) == IF api_key = None THEN env ELSE api_key

\* the truth value of an Optional[str]
Truthy(v) == v # None /\ v # PyStr("")

\* client.py:58-66, with the API key __init__ resolved
NewClient(api_key, base_url, timeout) ==
    [api_key |-> api_key,
     base_url |-> RStripSlash(base_url),
     timeout |-> timeout,
     common_headers |-> ("Content-Type" :> "application/json")
                        @@ ("x-messari-api-key" :> api_key)]

\* no client: __init__ has not run, or it raised
NoClient ==
    [api_key |-> "", base_url |-> <<>>, timeout |-> 0,
     common_headers |-> EmptyDict]

\* MessariClient.__init__ (client.py:49-66) on the arguments and
\* environment c
Construction(c) ==
    LET api_key == ResolveApiKey(c.api_key, c.env) IN
    IF ~Truthy(api_key)
    THEN [ok |-> FALSE, client |-> NoClient,
          err |-> PlainError("MessariConfigError", "API key is missing. "
                     \o "Either pass api_key explicitly or set "
                     \o "MESSARI_API_KEY environment variable.")]
    ELSE [ok |-> TRUE,
          client |-> NewClient(api_key.s, c.base_url, c.timeout),
          err |-> NoErr]

(***************************************************************************)
(* The inputs the operations are tried with.                               *)
(***************************************************************************)
\* marks a key a candidate map leaves out
Missing == [t |-> "missing", n |-> 0, s |-> ""]

\* every dict that gives each key of `choices` one of its values or, for
\* Missing, leaves the key out
Dicts(choices) ==
    {Restrict(f, {k \in DOMAIN choices : f[k] # Missing}) :
        f \in {g \in [DOMAIN choices -> UNION Range2(choices)] :
                  \A k \in DOMAIN choices : g[k] \in choices[k]}}

ApiKeyInputs == {None, PyStr(""), PyStr("secret-key")}
EnvInputs == {None, PyStr(""), PyStr("env-key")}
\* the default base URL followed by 0 .. MaxSlashes "/"
BaseUrlInputs ==
    {DEFAULT_BASE_URL \o [i \in 1 .. k |-> "/"] : k \in 0 .. MaxSlashes}
TimeoutInputs == {DefaultTimeout, 2 * DefaultTimeout}

ApiNames == DOMAIN registry \cup {"assets.unknown"}

PathParamInputs ==
    {Absent,
     Some("exchangeIdentifier" :> PyStr("binance")),
     Some("slug" :> PyInt(7))}

CallQueryChoices ==
    ("limit" :> {Missing, None, PyInt(50)})
    @@ ("hasNews" :> {Missing, PyBool(TRUE), PyBool(FALSE)})
    @@ ("bogus" :> {Missing, PyStr("x"), PyList("a,b")})

CallQueryInputs == {Absent} \cup {Some(d) : d \in Dicts(CallQueryChoices)}

PagedQueryChoices ==
    ("page" :> ({Missing, None, PyStr("2"), PyBool(TRUE)}
                \cup {PyInt(i) : i \in 0 .. MaxStartPage}))
    @@ ("limit" :> {Missing, PyInt(50)})

PagedQueryInputs == {Absent} \cup {Some(d) : d \in Dicts(PagedQueryChoices)}

JsonBodyInputs == {None, PyDict(""), PyDict("messages: hi")}

ExtraHeaderInputs ==
    {Absent,
     Some(("Content-Type" :> "text/plain") @@ ("X-Trace" :> "t1"))}

PagedJsonBodyInputs == {None, PyDict("messages: hi")}

PageParamInputs == {"page", "offset"}

StatusCodes == {200, 304, 401, 429, 500}
Contents == {"", "{\"error\":\"rate limited\"}", "<html>"}
Outcomes ==
    {Response(sc, c) : sc \in StatusCodes, c \in Contents}
    \cup {TransportTimeout}

\* every status of the HTTP range, for the classification
AllStatusCodes == 100 .. 599
AllContents == Contents \cup {" ", "{\"data\":[]}"}

(***************************************************************************)
(* The state machine.                                                      *)
(***************************************************************************)
NoArgs ==
    [api_name |-> "", path_params |-> Absent, query_params |-> Absent,
     json_body |-> None, extra_headers |-> Absent, raw |-> FALSE,
     page_param |-> "", max_pages |-> 0]

CallArgs(api_name, path_params, query_params, json_body, extra_headers, raw) ==
    [api_name |-> api_name, path_params |-> path_params,
     query_params |-> query_params, json_body |-> json_body,
     extra_headers |-> extra_headers, raw |-> raw,
     page_param |-> "", max_pages |-> 0]

PagedArgs(api_name, path_params, query_params, json_body, page_param, max_pages) ==
    [api_name |-> api_name, path_params |-> path_params,
     query_params |-> query_params, json_body |-> json_body,
     extra_headers |-> Absent, raw |-> FALSE,
     page_param |-> page_param, max_pages |-> max_pages]

\* the dicts among the arguments, as the caller holds them
CallerMaps(a) ==
    [path_params |-> a.path_params, query_params |-> a.query_params,
     json_body |-> a.json_body, extra_headers |-> a.extra_headers]
NoCaller == CallerMaps(NoArgs)

Idle ==
    /\ pc = "idle"
    /\ op = "none"
    /\ args = NoArgs
    /\ qp = EmptyDict
    /\ page = None
    /\ results = <<>>
    /\ sent = <<>>
    /\ received = <<>>
    /\ jsonCalls = 0
    /\ result = NoResult
    /\ caller = NoCaller

\* MessariClient("secret-key") with the defaults of __init__
DefaultCtor ==
    [api_key |-> PyStr("secret-key"), env |-> None,
     base_url |-> DEFAULT_BASE_URL, timeout |-> DefaultTimeout]

Init ==
    /\ registry = MESSARI_API_REGISTRY
    /\ ctor = DefaultCtor
    /\ client = NewClient("secret-key", DEFAULT_BASE_URL, DefaultTimeout)
    /\ extraPassed = FALSE
    /\ Idle

\* MessariClient.call, from entry to return or raise, with the transport's
\* answer `out` to the request it sends (if it sends one)
DoCall(a, out) ==
    /\ LET r == CallRun(registry, client, a, out) IN
       /\ sent' = r.sent
       /\ received' = r.received
       /\ jsonCalls' = r.jsonCalls
       /\ result' = r.result
    /\ pc' = "done"
    /\ op' = "call"
    /\ args' = a
    /\ caller' = CallerMaps(a)
    /\ client' = ClientAfterCall(registry, client, a)
    /\ UNCHANGED <<registry, qp, page, results, ctor, extraPassed>>

Call ==
    /\ pc = "idle"
    /\ \E api_name \in ApiNames, path_params \in PathParamInputs,
          query_params \in CallQueryInputs, json_body \in JsonBodyInputs,
          extra_headers \in ExtraHeaderInputs, raw \in BOOLEAN,
          out \in Outcomes :
        DoCall(CallArgs(api_name, path_params, query_params, json_body,
                        extra_headers, raw), out)

\* paged_call, client.py:177-179: the locals before the loop
PagedCallStart ==
    /\ pc = "idle"
    /\ \E api_name \in ApiNames, path_params \in PathParamInputs,
          query_params \in PagedQueryInputs,
          json_body \in PagedJsonBodyInputs,
          page_param \in PageParamInputs, max_pages \in -1 .. MaxPages :
        /\ pc' = "paging"
        /\ op' = "paged_call"
        /\ args' = PagedArgs(api_name, path_params, query_params, json_body,
                             page_param, max_pages)
        /\ results' = <<>>
        /\ qp' = OrEmpty(query_params)
        /\ page' = IF page_param \in DOMAIN OrEmpty(query_params)
                   THEN OrEmpty(query_params)[page_param]
                   ELSE PyInt(0)
        /\ caller' = CallerMaps(PagedArgs(api_name, path_params, query_params,
                                          json_body, page_param, max_pages))
        /\ UNCHANGED <<registry, client, sent, received, jsonCalls, result,
                       ctor, extraPassed>>

\* Mutant of PageIncrement: the page index is not advanced.
PageIncrementStuck(v) ==
    IF v.t \in {"int", "bool"}
    THEN [ok |-> TRUE, value |-> v]
    ELSE [ok |-> FALSE, value |-> v]

\* page += 1: defined on int and bool (an int in Python), TypeError otherwise
PageIncrement(v) ==
    IF v.t \in {"int", "bool"}
    THEN [ok |-> TRUE, value |-> PyInt(v.n + 1)]
    ELSE [ok |-> FALSE, value |-> v]

\* the query map of one iteration: qp[page_param] = page
PageQuery(q, page_param, p) == Update(q, page_param :> p)

\* Mutant of CallerAfterPageWrite: qp is the caller's dict itself
\* (qp = query_params or {}), so the write lands in it.
CallerAfterPageWriteAliased(c, q) ==
    IF ~c.query_params.none /\ DOMAIN c.query_params.d # {}
    THEN [c EXCEPT !.query_params = Some(q)]
    ELSE c

\* the caller's dicts after qp[page_param] = page made qp equal to q: qp is
\* a copy, dict(query_params or {}) (client.py:178), so they are as before
CallerAfterPageWrite(c, q) == c

\* Mutant of PagedCallStep: an error of call ends the loop and the pages
\* fetched so far are returned (try: ... except Exception: break).
PagedCallStepSwallow ==
    /\ pc = "paging"
    /\ Len(results) < args.max_pages
    /\ \E out \in Outcomes :
        /\ LET q == PageQuery(qp, args.page_param, page)
               r == CallRun(registry, client,
                            [args EXCEPT !.query_params = Some(q)], out)
               inc == PageIncrement(page)
           IN  /\ qp' = q
               /\ caller' = CallerAfterPageWrite(caller, q)
               /\ client' = ClientAfterCall(registry, client,
                                  [args EXCEPT !.query_params = Some(q)])
               /\ sent' = sent \o r.sent
               /\ received' = received \o r.received
               /\ jsonCalls' = jsonCalls + r.jsonCalls
               /\ IF r.result.kind = "raise"
                  THEN /\ result' = ReturnList(results)
                       /\ pc' = "done"
                       /\ UNCHANGED <<results, page>>
                  ELSE /\ results' = Append(results, r.result.value)
                       /\ IF inc.ok
                          THEN /\ page' = inc.value
                               /\ UNCHANGED <<pc, result>>
                          ELSE /\ result' = Raise(PlainError("TypeError",
                                       "unsupported operand type(s) for +="))
                               /\ pc' = "done"
                               /\ UNCHANGED page
        /\ UNCHANGED <<registry, op, args, ctor, extraPassed>>

\* paged_call, client.py:181-190: one iteration of the loop
PagedCallStep ==
    /\ pc = "paging"
    /\ Len(results) < args.max_pages
    /\ \E out \in Outcomes :
        /\ LET q == PageQuery(qp, args.page_param, page)
               r == CallRun(registry, client,
                            [args EXCEPT !.query_params = Some(q)], out)
               inc == PageIncrement(page)
           IN  /\ qp' = q
               /\ caller' = CallerAfterPageWrite(caller, q)
               /\ client' = ClientAfterCall(registry, client,
                                  [args EXCEPT !.query_params = Some(q)])
               /\ sent' = sent \o r.sent
               /\ received' = received \o r.received
               /\ jsonCalls' = jsonCalls + r.jsonCalls
               /\ IF r.result.kind = "raise"
                  THEN /\ result' = r.result
                       /\ pc' = "done"
                       /\ UNCHANGED <<results, page>>
                  ELSE /\ results' = Append(results, r.result.value)
                       /\ IF inc.ok
                          THEN /\ page' = inc.value
                               /\ UNCHANGED <<pc, result>>
                          ELSE /\ result' = Raise(PlainError("TypeError",
                                       "unsupported operand type(s) for +="))
                               /\ pc' = "done"
                               /\ UNCHANGED page
        /\ UNCHANGED <<registry, op, args, ctor, extraPassed>>

\* paged_call, client.py:192: the loop is over
PagedCallReturn ==
    /\ pc = "paging"
    /\ Len(results) >= args.max_pages
    /\ result' = ReturnList(results)
    /\ pc' = "done"
    /\ UNCHANGED <<registry, client, op, args, qp, page, results, sent,
                   received, jsonCalls, ctor, caller, extraPassed>>

\* the caller has the result; nothing of the call is kept
Finish ==
    /\ pc = "done"
    /\ pc' = "idle"
    /\ op' = "none"
    /\ args' = NoArgs
    /\ qp' = EmptyDict
    /\ page' = None
    /\ results' = <<>>
    /\ sent' = <<>>
    /\ received' = <<>>
    /\ jsonCalls' = 0
    /\ result' = NoResult
    /\ caller' = NoCaller
    /\ extraPassed' = (extraPassed \/ OrEmpty(args.extra_headers) # EmptyDict)
    /\ UNCHANGED <<registry, client, ctor>>

Next == Call \/ PagedCallStart \/ PagedCallStep \/ PagedCallReturn \/ Finish

Spec == Init /\ [][Next]_vars


(***************************************************************************)
(* The same client over a registry that also holds a POST endpoint.  The   *)
(* shipped registry has GET endpoints only; call reads the method from the *)
(* descriptor (client.py:108-109), and the registry data format allows     *)
(* POST.                                                                   *)
(***************************************************************************)
RegistryWithPost ==
    MESSARI_API_REGISTRY
    @@ ("ai.chat" :>
          [method |-> "post",
           path |-> <<Lit("/ai/v1/chat/completions")>>,
           path_params |-> <<>>,
           query_params |-> <<>>])

InitPost ==
    /\ registry = RegistryWithPost
    /\ ctor = DefaultCtor
    /\ client = NewClient("secret-key", DEFAULT_BASE_URL, DefaultTimeout)
    /\ extraPassed = FALSE
    /\ Idle

SpecPost == InitPost /\ [][Next]_vars

(***************************************************************************)
(* call with the transport answering every status of 100..599, for the     *)
(* status classification.                                                  *)
(***************************************************************************)
CallAnyStatus ==
    /\ pc = "idle"
    /\ \E api_name \in {"assets.list", "exchanges.get"},
          status_code \in AllStatusCodes, content \in AllContents,
          raw \in BOOLEAN :
        DoCall(CallArgs(api_name,
                        Some("exchangeIdentifier" :> PyStr("binance")),
                        Absent, None, Absent, raw),
               Response(status_code, content))

NextStatus == CallAnyStatus \/ Finish

SpecStatus == Init /\ [][NextStatus]_vars


(***************************************************************************)
(* The client from its construction on: __init__ with every combination of *)
(* explicit key, environment, base URL and timeout, then calls.            *)
(***************************************************************************)
NoCtor == [api_key |-> None, env |-> None, base_url |-> <<>>, timeout |-> 0]

InitNew ==
    /\ registry = MESSARI_API_REGISTRY
    /\ ctor = NoCtor
    /\ client = NoClient
    /\ pc = "new"
    /\ op = "none"
    /\ args = NoArgs
    /\ qp = EmptyDict
    /\ page = None
    /\ results = <<>>
    /\ sent = <<>>
    /\ received = <<>>
    /\ jsonCalls = 0
    /\ result = NoResult
    /\ caller = NoCaller
    /\ extraPassed = FALSE

\* MessariClient(api_key, base_url=..., timeout=...) with the environment
\* holding env
Construct ==
    /\ pc = "new"
    /\ \E api_key \in ApiKeyInputs, env \in EnvInputs,
          base_url \in BaseUrlInputs, timeout \in TimeoutInputs :
        LET c == [api_key |-> api_key, env |-> env, base_url |-> base_url,
                  timeout |-> timeout]
            r == Construction(c)
        IN  /\ ctor' = c
            /\ client' = r.client
            /\ IF r.ok
               THEN pc' = "idle" /\ result' = NoResult
               ELSE pc' = "failed" /\ result' = Raise(r.err)
    /\ UNCHANGED <<registry, op, args, qp, page, results, sent, received,
                   jsonCalls, caller, extraPassed>>

NextNew == Construct \/ CallAnyStatus \/ Finish

SpecNew == InitNew /\ [][NextNew]_vars

(***************************************************************************)
(* Properties.                                                             *)
(***************************************************************************)
CallDone == pc = "done" /\ op = "call"
\* the transport returned a response to the (one) request of a call
Responded ==
    CallDone /\ received # <<>> /\ received[1].kind = "response"
Is2xx(status_code) == 200 <= status_code /\ status_code < 300
\* the descriptor's placeholders the caller gave no value for
MissingPlaceholders ==
    Placeholders(registry[args.api_name].path)
    \ DOMAIN OrEmpty(args.path_params)
\* the two ValueErrors of call, told apart by their message
UnknownEndpoint(e) ==
    e.cls = "ValueError" /\ e.msg = "Unknown api_name: " \o args.api_name
MissingPathParam(e) ==
    /\ e.cls = "ValueError"
    /\ \E key \in MissingPlaceholders :
          e.msg = "Missing path param '" \o key \o "' for " \o args.api_name
                  \o " (path template: "
                  \o TemplateText(registry[args.api_name].path) \o ")"

\* C1: a call naming no registered endpoint fails with the unknown-endpoint
\* error, a call that leaves a placeholder of the path template without a
\* value fails with the missing-path-param error, and in both cases the
\* error is raised and nothing was handed to the transport.
C1_RejectedBeforeTransport ==
    CallDone =>
        /\ args.api_name \notin DOMAIN registry =>
              /\ result.kind = "raise"
              /\ UnknownEndpoint(result.err)
              /\ sent = <<>>
        /\ (args.api_name \in DOMAIN registry /\ MissingPlaceholders # {}) =>
              /\ result.kind = "raise"
              /\ MissingPathParam(result.err)
              /\ sent = <<>>

C1_Witness ==
    /\ CallDone
    /\ args.api_name = "exchanges.get"
    /\ args.path_params = Some("slug" :> PyInt(7))
    /\ result.kind = "raise"
    /\ MissingPathParam(result.err)
    /\ sent = <<>>

\* C2: the query keys of the request are exactly the caller's keys whose
\* value is not None and that the endpoint allows (every key when its
\* allowed set is empty).
C2_QueryKeysFiltered ==
    (CallDone /\ sent # <<>>) =>
        LET q == OrEmpty(args.query_params)
            allowed == Range(registry[args.api_name].query_params)
        IN  DOMAIN sent[1].params =
                {k \in DOMAIN q :
                    q[k] # None /\ (allowed = {} \/ k \in allowed)}

C2_Witness ==
    /\ CallDone
    /\ args.api_name = "exchanges.get"
    /\ DOMAIN OrEmpty(args.query_params) = {"limit", "bogus", "hasNews"}
    /\ args.query_params.d["limit"] = None
    /\ sent # <<>>
    /\ DOMAIN sent[1].params = {"bogus", "hasNews"}

\* C3: every query value of the request is "true" or "false" for a boolean
\* the caller passed, and the caller's own value otherwise.
C3_BooleansAsLiterals ==
    (CallDone /\ sent # <<>>) =>
        \A k \in DOMAIN sent[1].params :
            LET v == OrEmpty(args.query_params)[k] IN
            sent[1].params[k] =
                IF v = PyBool(TRUE) THEN PyStr("true")
                ELSE IF v = PyBool(FALSE) THEN PyStr("false")
                ELSE v

C3_Witness ==
    /\ CallDone
    /\ sent # <<>>
    /\ DOMAIN sent[1].params = {"limit", "hasNews"}
    /\ args.query_params.d["hasNews"] = PyBool(FALSE)
    /\ sent[1].params["hasNews"] = PyStr("false")
    /\ sent[1].params["limit"] = PyInt(50)

\* the four outcomes of the classification
Classification(status_code) ==
    IF Is2xx(status_code) THEN "success"
    ELSE IF status_code \in {401, 403} THEN "AuthError"
    ELSE IF status_code = 429 THEN "RateLimitError"
    ELSE "GenericAPIError"
\* how call classified the response: the class of the API error it raised,
\* or success when it raised none
Classified ==
    IF result.kind = "raise" /\ result.err.cls = "MessariAuthError"
    THEN "AuthError"
    ELSE IF result.kind = "raise" /\ result.err.cls = "MessariRateLimitError"
    THEN "RateLimitError"
    ELSE IF result.kind = "raise" /\ result.err.cls = "MessariAPIError"
    THEN "GenericAPIError"
    ELSE "success"

\* C4: every status of 100..599 is classified as the one outcome its code
\* gives (success for 200-299, AuthError for 401 and 403, RateLimitError
\* for 429, GenericAPIError otherwise), whatever the body and whether or
\* not it decodes.
C4_StatusClassification ==
    Responded =>
        /\ received[1].status_code \in AllStatusCodes
        /\ Classified = Classification(received[1].status_code)
        /\ (args.raw /\ Is2xx(received[1].status_code)) =>
              result.kind = "return"

C4_Witness ==
    /\ Responded
    /\ received[1].status_code = 100
    /\ received[1].content = "<html>"
    /\ result.kind = "raise"
    /\ result.err.cls = "MessariAPIError"
    /\ result.err.error_body = None


PagedDone == pc = "done" /\ op = "paged_call"
\* the page paged_call starts from: the caller's entry, or 0 without one
StartPage ==
    LET q == OrEmpty(args.query_params) IN
    IF args.page_param \in DOMAIN q THEN q[args.page_param] ELSE PyInt(0)
\* the transport answered with a 2xx response whose body is empty or decodes
Succeeded(out) ==
    /\ out.kind = "response"
    /\ Is2xx(out.status_code)
    /\ (out.content = "" \/ JsonLoads(out.content).ok)
\* the payload call returns for such a response
Payload(out) == IF out.content = "" THEN None ELSE JsonLoads(out.content).value
\* N requests were issued with page values p0 .. p0+N-1 and their N
\* payloads returned in order
PagedInOrder(N, p0) ==
    /\ Len(sent) = N
    /\ \A k \in 1 .. Len(sent) :
          /\ args.page_param \in DOMAIN sent[k].params
          /\ sent[k].params[args.page_param] = PyInt(p0 + k - 1)
    /\ result.kind = "return"
    /\ Len(result.values) = N
    /\ \A k \in 1 .. Len(result.values) :
          k <= Len(received) /\ result.values[k] = Payload(received[k])

\* C5 as claimed: for any registered endpoint, page parameter name,
\* N = max_pages >= 0 and integer start page p0, paged_call issues exactly N
\* requests with page values p0 .. p0+N-1 and returns N payloads in order.
C5_AsClaimed ==
    (/\ PagedDone
     /\ args.api_name \in DOMAIN registry
     /\ args.max_pages >= 0
     /\ StartPage.t = "int") =>
        PagedInOrder(args.max_pages, StartPage.n)

\* C5 amended: the same, for an endpoint whose path placeholders are all
\* supplied and whose allowed query set is empty or holds the page parameter
\* name, when every page request gets a 2xx response whose body is empty or
\* decodes.
C5_PagedInOrder ==
    (/\ PagedDone
     /\ args.api_name \in DOMAIN registry
     /\ args.max_pages >= 0
     /\ StartPage.t = "int"
     /\ MissingPlaceholders = {}
     /\ LET allowed == Range(registry[args.api_name].query_params) IN
            allowed = {} \/ args.page_param \in allowed
     /\ \A k \in DOMAIN received : Succeeded(received[k])) =>
        PagedInOrder(args.max_pages, StartPage.n)

C5_Witness ==
    /\ PagedDone
    /\ args.api_name = "news.feed"
    /\ args.page_param = "page"
    /\ args.max_pages = 3
    /\ StartPage = PyInt(1)
    /\ Len(sent) = 3
    /\ sent[3].params["page"] = PyInt(3)
    /\ result.kind = "return"
    /\ result.values = <<None, PyDict("error: rate limited"), None>>

\* C6: a response whose status is outside 200-299 makes call raise an API
\* error carrying that status, the decoded body (None if it does not
\* decode) and the request URL, in raw mode too; a raw response is returned
\* only with a status in 200-299.
C6_Non2xxRaised ==
    Responded =>
        /\ ~Is2xx(received[1].status_code) =>
              /\ result.kind = "raise"
              /\ result.err.cls \in MessariAPIErrorClasses
              /\ result.err.status_code = received[1].status_code
              /\ result.err.error_body =
                    (IF JsonLoads(received[1].content).ok
                     THEN JsonLoads(received[1].content).value
                     ELSE None)
              /\ result.err.url = sent[1].url
        /\ (result.kind = "return" /\ result.value.t = "response") =>
              /\ args.raw
              /\ Is2xx(result.value.n)

C6_Witness ==
    /\ Responded
    /\ args.raw
    /\ args.api_name = "exchanges.get"
    /\ received[1] = Response(429, "{\"error\":\"rate limited\"}")
    /\ result.kind = "raise"
    /\ result.err.cls = "MessariRateLimitError"
    /\ result.err.error_body = PyDict("error: rate limited")
    /\ result.err.url = "https://api.messari.io/metrics/v1/exchanges/binance"

\* C7 as claimed: a 2xx response with a non-empty body that does not decode
\* makes call (raw false) fail with an error of the client's own taxonomy,
\* a MessariError.
C7_AsClaimed ==
    (/\ Responded
     /\ ~args.raw
     /\ Is2xx(received[1].status_code)
     /\ received[1].content # ""
     /\ ~JsonLoads(received[1].content).ok) =>
        /\ result.kind = "raise"
        /\ IsMessariError(result.err)

\* C8 as claimed: when the transport times out, the call fails with an
\* error of the client's own taxonomy, a MessariError, after exactly one
\* invocation of the transport.
C8_AsClaimed ==
    (/\ CallDone
     /\ received # <<>>
     /\ received[1].kind = "timeout") =>
        /\ result.kind = "raise"
        /\ IsMessariError(result.err)
        /\ Len(sent) = 1

\* C9: a 2xx response with an empty body makes call (raw false) return
\* None, raise nothing and not run resp.json().
C9_EmptyBodyIsNone ==
    (/\ Responded
     /\ ~args.raw
     /\ Is2xx(received[1].status_code)
     /\ received[1].content = "") =>
        /\ result = Return(None)
        /\ jsonCalls = 0

C9_Witness ==
    /\ Responded
    /\ ~args.raw
    /\ received[1] = Response(200, "")
    /\ result = Return(None)
    /\ jsonCalls = 0

\* C10: a request carries a body exactly when the endpoint's method is POST
\* and the caller passed a body (then it is the caller's body); a request
\* of any other method carries none, whatever the caller passed.
C10_BodyOnlyOnPost ==
    \A i \in DOMAIN sent :
        /\ sent[i].method = Upper(registry[args.api_name].method)
        /\ sent[i].json # None <=>
              (sent[i].method = "POST" /\ args.json_body # None)
        /\ sent[i].json # None => sent[i].json = args.json_body

C10_Witness ==
    /\ CallDone
    /\ args.api_name = "ai.chat"
    /\ args.json_body = PyDict("")
    /\ sent # <<>>
    /\ sent[1].method = "POST"
    /\ sent[1].json = PyDict("")


\* the headers the caller passed ({} when none were)
ExtraHeaders == IF args.extra_headers.none THEN EmptyDict ELSE args.extra_headers.d
\* the base headers: the content type and the client's API key
BaseHeaders ==
    ("Content-Type" :> "application/json")
    @@ ("x-messari-api-key" :> client.api_key)

\* C11: the headers of every request are the base headers overlaid by the
\* caller's extra headers: each extra key with the caller's value, also when
\* it is a base key, each other base key with its base value, and no other
\* key.
C11_HeadersOverlaid ==
    \A i \in DOMAIN sent :
        /\ DOMAIN sent[i].headers = DOMAIN BaseHeaders \cup DOMAIN ExtraHeaders
        /\ \A k \in DOMAIN ExtraHeaders : sent[i].headers[k] = ExtraHeaders[k]
        /\ \A k \in DOMAIN BaseHeaders \ DOMAIN ExtraHeaders :
              sent[i].headers[k] = BaseHeaders[k]

C11_Witness ==
    /\ CallDone
    /\ sent # <<>>
    /\ ExtraHeaders = ("Content-Type" :> "text/plain") @@ ("X-Trace" :> "t1")
    /\ sent[1].headers["Content-Type"] = "text/plain"
    /\ sent[1].headers["X-Trace"] = "t1"
    /\ sent[1].headers["x-messari-api-key"] = "secret-key"


\* __init__ has run
Attempted == pc # "new"
\* it returned a client
Constructed == pc \notin {"new", "failed"}
\* the key __init__ goes by: the explicit one when one was passed, the
\* environment's otherwise
PassedOrEnv == IF ctor.api_key # None THEN ctor.api_key ELSE ctor.env
NonEmptyKey(v) == v.t = "str" /\ v.s # ""
EndsWithSlash(tokens) == tokens # <<>> /\ tokens[Len(tokens)] = "/"

\* C12 as claimed: construction fails with ConfigError exactly when neither
\* the explicit key nor the environment gives a non-empty key; a constructed
\* client has a non-empty key and a base URL with no trailing slash.
C12_AsClaimed ==
    Attempted =>
        /\ pc = "failed" <=>
              ~(NonEmptyKey(ctor.api_key) \/ NonEmptyKey(ctor.env))
        /\ pc = "failed" =>
              result.kind = "raise" /\ result.err.cls = "MessariConfigError"
        /\ Constructed =>
              client.api_key # "" /\ ~EndsWithSlash(client.base_url)

\* C12 amended: construction fails with ConfigError exactly when the key it
\* goes by is empty or absent, that key being the explicit one whenever one
\* is passed (the empty string too) and the environment's only when none is
\* passed; a constructed client has a non-empty key and a base URL with no
\* trailing slash.
C12_ConfigErrorOnNoKey ==
    Attempted =>
        /\ pc = "failed" <=> ~NonEmptyKey(PassedOrEnv)
        /\ pc = "failed" =>
              result.kind = "raise" /\ result.err.cls = "MessariConfigError"
        /\ Constructed =>
              /\ client.api_key # ""
              /\ client.api_key = PassedOrEnv.s
              /\ ~EndsWithSlash(client.base_url)

C12_Witness ==
    /\ pc = "idle"
    /\ ctor.api_key = None
    /\ ctor.env = PyStr("env-key")
    /\ EndsWithSlash(ctor.base_url)
    /\ client.api_key = "env-key"
    /\ client.base_url = DEFAULT_BASE_URL

\* construction fails on an explicit empty key although the environment
\* holds one
C12_WitnessFailed ==
    /\ pc = "failed"
    /\ ctor.api_key = PyStr("")
    /\ ctor.env = PyStr("env-key")


\* the arguments with the caller's dicts as they are now
ArgsNow ==
    [args EXCEPT !.path_params = caller.path_params,
                 !.query_params = caller.query_params,
                 !.json_body = caller.json_body,
                 !.extra_headers = caller.extra_headers]
\* the first request of the operation, resolved again from the caller's
\* dicts as they are now (for paged_call: with the start page they give)
ResolvedAgain ==
    LET q == OrEmpty(ArgsNow.query_params)
        first == IF op = "call" THEN ArgsNow
                 ELSE [ArgsNow EXCEPT !.query_params =
                          Some(PageQuery(q, args.page_param,
                                 IF args.page_param \in DOMAIN q
                                 THEN q[args.page_param] ELSE PyInt(0)))]
    IN  CallRun(registry, client, first, received[1]).sent

C14_ClientAndRegistryKept ==
    /\ registry = MESSARI_API_REGISTRY
    /\ client = Construction(ctor).client
    /\ client.common_headers = BaseHeaders
    /\ ExtraHeaders = EmptyDict =>
          \A i \in DOMAIN sent : sent[i].headers = BaseHeaders

C14_Witness ==
    /\ extraPassed
    /\ pc = "done"
    /\ args.extra_headers = Absent
    /\ Len(sent) >= 1
    /\ DOMAIN sent[1].headers = {"Content-Type", "x-messari-api-key"}
    /\ sent[1].headers["Content-Type"] = "application/json"
    /\ client = NewClient("secret-key", DEFAULT_BASE_URL, DefaultTimeout)

\* paged_call ended by an error of one of its calls (and not by the
\* TypeError of page += 1 on a page value that is no number, which comes
\* after a page was fetched)
PageFailed ==
    PagedDone /\ result.kind = "raise" /\ result.err.cls # "TypeError"
\* the page request that failed: the pages before it are in `results`
FailedPage == Len(results) + 1
\* what the call for the failed page raised, given the transport's answer
ErrorOfFailedPage(out) ==
    CallRun(registry, client, [args EXCEPT !.query_params = Some(qp)],
            out).result
\* call rejects the arguments before it sends anything
RejectedBeforeRequest ==
    ~ResolvePath(registry, args.api_name, args.path_params).ok

\* C15 as claimed: when the k-th page request of paged_call fails, with
\* whatever error, the error reaches the caller, no list is returned and
\* exactly k requests were handed to the transport.
C15_AsClaimed ==
    PageFailed =>
        /\ FailedPage \in 1 .. args.max_pages
        /\ result.values = <<>>
        /\ Len(sent) = FailedPage

\* C15: when the k-th page request of paged_call fails, its error reaches
\* the caller and no list is returned, the k-1 payloads fetched included.
\* If call rejected the arguments, which it does at the first page or never,
\* nothing was handed to the transport; otherwise exactly k requests were,
\* the first k-1 answered with success and the k-th not, and the error is
\* the one call raises for the k-th answer.  No answer other than a
\* success is ever followed by another request or by a returned list.
C15_FailurePropagated ==
    /\ PageFailed =>
          /\ FailedPage \in 1 .. args.max_pages
          /\ result.values = <<>> /\ result.value = None
          /\ IF RejectedBeforeRequest
             THEN /\ FailedPage = 1
                  /\ sent = <<>>
                  /\ result.err.cls = "ValueError"
             ELSE /\ Len(sent) = FailedPage
                  /\ Len(received) = FailedPage
                  /\ ~Succeeded(received[FailedPage])
                  /\ \A i \in 1 .. FailedPage - 1 : Succeeded(received[i])
                  /\ result = ErrorOfFailedPage(received[FailedPage])
    /\ op = "paged_call" =>
          \A i \in DOMAIN received :
              ~Succeeded(received[i]) =>
                  /\ i = Len(received)
                  /\ pc = "done"
                  /\ result.kind = "raise"
                  /\ Len(results) = i - 1

C15_Witness ==
    /\ PageFailed
    /\ args.max_pages = 3
    /\ Len(sent) = 3
    /\ Succeeded(received[1]) /\ Succeeded(received[2])
    /\ received[3] = Response(500, "<html>")
    /\ Len(results) = 2
    /\ result.err.cls = "MessariAPIError"
    /\ result.values = <<>>

C15_WitnessTimeout ==
    /\ PageFailed
    /\ Len(sent) = 2
    /\ received[2] = TransportTimeout
    /\ result.err.cls = "requests.exceptions.Timeout"

=============================================================================
